---- MODULE Spec2Model ----
(***************************************************************************)
(* Model of chapter07_distributed-learning/hybridize.ipynb: a gluon        *)
(* HybridSequential / HybridBlock network that is called eagerly, switched *)
(* with hybridize(), called again, fed a Symbol placeholder, and saved.    *)
(* The notebook runs the network at sizes 512 -> 256 -> 128 -> 2; the      *)
(* model keeps the same construction at small sizes.                       *)
(***************************************************************************)
EXTENDS Integers, Sequences, FiniteSets, TLC

\* ---------------------------------------------------------------- bounds
MaxLayers == 2      \* layers added by get_net
MaxUnits  == 2      \* units of a Dense layer
MaxFeat   == 2      \* feature dimension of an input
MaxBatch  == 2      \* batch dimension of an input
MaxNets   == 2      \* network instances created
MaxSteps  == 3      \* notebook statements executed after the first get_net()

VARIABLES
    arch,    \* the unit counts get_net passes to nn.Dense, in the order added
    nets,    \* the network instances created so far, in creation order
    count,   \* per instance: forward calls served and hybrid_forward invocations
    last,    \* what the last statement was, what it returned and printed
    y,       \* the notebook's variable y once it holds a symbolic program
    files,   \* model.json and model.params
    steps    \* statements executed

vars == <<arch, nets, count, last, y, files, steps>>

\* --------------------------------------------------------------- tensors
\* A tensor is a sequence of rows; a vector is a sequence of numbers.
NoTensor == <<>>

Zeros(n) == [i \in 1..n |-> 0]

Shape(t) == <<Len(t), IF Len(t) = 0 THEN 0 ELSE Len(t[1])>>

\* nd.random_normal(shape=(batch, feat)): one fixed draw per shape.
random_normal(batch, feat) ==
    [b \in 1..batch |-> [j \in 1..feat |-> ((b + 2 * j) % 3) - 1]]

Inputs == { random_normal(b, f) : b \in 1..MaxBatch, f \in 1..MaxFeat }

\* ----------------------------------------------------------- names
\* hybridsequential<scope>_dense<layer>_<tag>; the data placeholder has no scope.
Name(scope, layer, tag) == <<scope, layer, tag>>

DataName == Name(-1, -1, "data")

\* ------------------------------------------------- imperative backend (nd)
RECURSIVE DotFrom(_, _, _)
DotFrom(a, b, i) ==
    IF i > Len(a) THEN 0 ELSE a[i] * b[i] + DotFrom(a, b, i + 1)

\* Mutant: only the first sample of the batch is computed.
NdFullyConnectedFirstRow(data, weight, bias) ==
    [b \in 1..1 |->
        [u \in 1..Len(weight) |-> DotFrom(data[b], weight[u], 1) + bias[u]]]

NdFullyConnected(data, weight, bias) ==
    [b \in 1..Len(data) |->
        [u \in 1..Len(weight) |-> DotFrom(data[b], weight[u], 1) + bias[u]]]

NdActivation(data) ==
    [b \in 1..Len(data) |->
        [u \in 1..Len(data[b]) |-> IF data[b][u] > 0 THEN data[b][u] ELSE 0]]

\* --------------------------------------------------- symbolic backend (sym)
\* A Symbol is the list of the nodes it depends on, in the order tojson lists
\* them, and the index (from 0) of its head node.
SymNode(op, name, inputs) == [op |-> op, name |-> name, inputs |-> inputs]

NoSymbol == [nodes |-> <<>>, head |-> -1]

SymVar(name) == [nodes |-> <<SymNode("null", name, <<>>)>>, head |-> 0]

SymFullyConnected(data, weight, bias, name) ==
    LET o1 == Len(data.nodes)
        o2 == o1 + Len(weight.nodes)
        shift(ns, o) ==
            [k \in 1..Len(ns) |->
                SymNode(ns[k].op, ns[k].name,
                        [m \in 1..Len(ns[k].inputs) |-> ns[k].inputs[m] + o])]
        before == data.nodes \o shift(weight.nodes, o1) \o shift(bias.nodes, o2)
    IN  [nodes |-> Append(before,
                          SymNode("FullyConnected", name,
                                  <<data.head, o1 + weight.head, o2 + bias.head>>)),
         head  |-> Len(before)]

\* Mutant: the activation node is added but the result still points at its input.
SymActivationDangling(data, name) ==
    [nodes |-> Append(data.nodes, SymNode("Activation", name, <<data.head>>)),
     head  |-> data.head]

SymActivation(data, name) ==
    [nodes |-> Append(data.nodes, SymNode("Activation", name, <<data.head>>)),
     head  |-> Len(data.nodes)]

\* Symbol.tojson(): nodes, the indices of the nodes without an operation, heads.
tojson(s) ==
    [nodes     |-> s.nodes,
     arg_nodes |-> SelectSeq([k \in 1..Len(s.nodes) |-> k - 1],
                             LAMBDA k : s.nodes[k + 1].op = "null"),
     heads     |-> <<s.head>>]

\* ------------------------------------------------------------ the network
\* get_net: every layer but the last has activation="relu".
Act(layers, i) == IF i < Len(layers) THEN "relu" ELSE "none"

Archs == UNION { [1..k -> 1..MaxUnits] : k \in 1..MaxLayers }

ParamNames(scope, layers) ==
    { Name(scope, i - 1, tag) : i \in 1..Len(layers), tag \in {"weight", "bias"} }

\* collect_params().initialize(): the input width of a Dense layer built without
\* in_units is not known yet, so its weight has shape (units, 0); bias is zeros.
\* in_units = 0 stands for "not known yet".
InUnits(layers, i, in_units) == IF i = 1 THEN in_units ELSE layers[i - 1]

InitWeight(seed, i, units, width) ==
    [u \in 1..units |-> [j \in 1..width |-> ((seed + i + u + 2 * j) % 3) - 1]]

InitParams(scope, layers, seed, in_units) ==
    [nm \in ParamNames(scope, layers) |->
        LET i == nm[2] + 1
        IN  IF nm[3] = "weight"
            THEN InitWeight(seed, i, layers[i],
                            IF in_units = 0 THEN 0 ELSE InUnits(layers, i, in_units))
            ELSE Zeros(layers[i])]

NewNet(scope, layers, seed) ==
    [scope        |-> scope,
     layers       |-> layers,
     seed         |-> seed,
     in_units     |-> 0,
     params       |-> InitParams(scope, layers, seed, 0),
     active       |-> FALSE,
     cached_graph |-> NoSymbol]

\* Mutant: every forward call draws the parameters again.
FinishDeferredInitEveryCall(net, feat) ==
    LET seed == IF net.in_units = 0 THEN net.seed ELSE net.seed + 1
    IN  [net EXCEPT !.in_units = feat,
                    !.seed = seed,
                    !.params = InitParams(net.scope, net.layers, seed, feat)]

\* The first forward call fixes the input width and the parameters get their data.
FinishDeferredInit(net, feat) ==
    IF net.in_units # 0 THEN net
    ELSE [net EXCEPT !.in_units = feat,
                     !.params = InitParams(net.scope, net.layers, net.seed, feat)]

\* hybrid_forward with F = mxnet.ndarray: x = layer(x) for each layer in order.
RECURSIVE HybridForwardNdFrom(_, _, _)
HybridForwardNdFrom(net, i, x) ==
    IF i > Len(net.layers) THEN x
    ELSE LET fc == NdFullyConnected(x, net.params[Name(net.scope, i - 1, "weight")],
                                    net.params[Name(net.scope, i - 1, "bias")])
         IN  HybridForwardNdFrom(net, i + 1,
                 IF Act(net.layers, i) = "relu" THEN NdActivation(fc) ELSE fc)

HybridForwardNd(net, x) == HybridForwardNdFrom(net, 1, x)

\* Mutant: the recorded program leaves the activations out.
RECURSIVE HybridForwardSymFromNoAct(_, _, _)
HybridForwardSymFromNoAct(net, i, x) ==
    IF i > Len(net.layers) THEN x
    ELSE HybridForwardSymFromNoAct(net, i + 1,
             SymFullyConnected(x, SymVar(Name(net.scope, i - 1, "weight")),
                               SymVar(Name(net.scope, i - 1, "bias")),
                               Name(net.scope, i - 1, "fwd")))

\* hybrid_forward with F = mxnet.symbol: the same layer calls on a Symbol.
RECURSIVE HybridForwardSymFrom(_, _, _)
HybridForwardSymFrom(net, i, x) ==
    IF i > Len(net.layers) THEN x
    ELSE LET fc == SymFullyConnected(x, SymVar(Name(net.scope, i - 1, "weight")),
                                     SymVar(Name(net.scope, i - 1, "bias")),
                                     Name(net.scope, i - 1, "fwd"))
         IN  HybridForwardSymFrom(net, i + 1,
                 IF Act(net.layers, i) = "relu"
                 THEN SymActivation(fc, Name(net.scope, i - 1, "relu_fwd"))
                 ELSE fc)

HybridForwardSym(net, x) == HybridForwardSymFrom(net, 1, x)

\* The cached graph run on real data: each node once, in list order.
RECURSIVE EvalNodes(_, _, _, _, _)
EvalNodes(nodes, k, vals, data, params) ==
    IF k > Len(nodes) THEN vals
    ELSE LET n == nodes[k]
             v == CASE n.op = "null" ->
                         IF n.name = DataName THEN data ELSE params[n.name]
                    [] n.op = "FullyConnected" ->
                         NdFullyConnected(vals[n.inputs[1] + 1], vals[n.inputs[2] + 1],
                                          vals[n.inputs[3] + 1])
                    [] n.op = "Activation" -> NdActivation(vals[n.inputs[1] + 1])
         IN  EvalNodes(nodes, k + 1, Append(vals, v), data, params)

CallCachedOp(graph, data, params) ==
    EvalNodes(graph.nodes, 1, <<>>, data, params)[graph.head + 1]

\* Operations the backend executes when the graph runs: its nodes with an op.
Kernels(graph) == Len(graph.nodes) - Len(tojson(graph).arg_nodes)

\* ------------------------------------------------------------- statements
\* calls: forward calls with an NDArray that returned; since: those made after
\* hybridize(); hf: lines hybrid_forward printed during calls; hf_since: those
\* printed during the calls made after hybridize().
NoCount == [calls |-> 0, since |-> 0, hf |-> 0, hf_since |-> 0]

\* One line printed by the instrumented hybrid_forward: type(x) and F, with the
\* argument it was given.
Printed(F, x_nd, x_sym) ==
    [F     |-> F,
     xtype |-> IF F = "mxnet.ndarray" THEN "NDArray" ELSE "Symbol",
     x_nd  |-> x_nd,
     x_sym |-> x_sym]

Result(op, n, x, out, sym, hf, kernels, error) ==
    [op |-> op, net |-> n, x |-> x, out |-> out, sym |-> sym, hf |-> hf,
     kernels |-> kernels, error |-> error]

\* The graph a compiled network runs: built by hybrid_forward on a placeholder
\* the first time, the kept one afterwards.
GetGraph(net) ==
    IF net.cached_graph = NoSymbol
    THEN HybridForwardSym(net, SymVar(DataName))
    ELSE net.cached_graph

\* A forward call whose input width differs from the width the parameters were
\* fixed to raises, returns nothing and changes nothing.
ShapeMismatch(net, x) == net.in_units # 0 /\ Shape(x)[2] # net.in_units

\* Mutant: the graph is recorded and kept before the mismatch is noticed.
FailFastAfterRecording(n, x) ==
    /\ last' = Result("forward", n, x, NoTensor, NoSymbol, <<>>, 0, TRUE)
    /\ nets' = [nets EXCEPT ![n].cached_graph =
                    IF nets[n].active THEN GetGraph(nets[n]) ELSE NoSymbol]
    /\ UNCHANGED <<count, y, files>>

FailFast(n, x) ==
    /\ last' = Result("forward", n, x, NoTensor, NoSymbol, <<>>, 0, TRUE)
    /\ UNCHANGED <<nets, count, y, files>>

\* Mutant: F follows the type of what the caller fed, an NDArray.
BackendByInput(net) == "mxnet.ndarray"

\* F for a call with an NDArray: mxnet.ndarray in imperative mode, mxnet.symbol
\* once compiled with hybridize.
Backend(net) == IF net.active THEN "mxnet.symbol" ELSE "mxnet.ndarray"

\* Mutant: once hybridized, hybrid_forward is never run again.
RunsHybridForwardEagerOnly(net) == ~net.active

\* Mutant: the kept graph is never consulted, every call records it again.
RunsHybridForwardAlways(net) == TRUE

\* Whether a forward call with an NDArray runs hybrid_forward: always in
\* imperative mode, only while no graph is kept once compiled.
RunsHybridForward(net) == ~net.active \/ net.cached_graph = NoSymbol

\* The lines hybrid_forward prints during a forward call with an NDArray.
ForwardPrints(net, x) ==
    IF ~RunsHybridForward(net) THEN <<>>
    ELSE IF Backend(net) = "mxnet.symbol"
         THEN <<Printed("mxnet.symbol", NoTensor, SymVar(DataName))>>
         ELSE <<Printed("mxnet.ndarray", x, NoSymbol)>>

\* Mutant: once a graph is kept, a compiled call hands back the output of the
\* call before it instead of running the graph on its own input.
ForwardValueStale(net, graph, x) ==
    IF net.active
    THEN IF /\ net.cached_graph # NoSymbol
            /\ last.op = "forward" /\ ~last.error /\ last.net = Len(nets)
         THEN last.out
         ELSE CallCachedOp(graph, x, net.params)
    ELSE HybridForwardNd(net, x)

\* net(x) with x an NDArray: a compiled network runs its graph, an eager one
\* runs hybrid_forward on the data.
ForwardValue(net, graph, x) ==
    IF net.active
    THEN CallCachedOp(graph, x, net.params)
    ELSE HybridForwardNd(net, x)

\* Mutant: an eager call records and keeps a graph as well.
AfterForwardKeepsGraph(net, graph) ==
    [net EXCEPT !.cached_graph = HybridForwardSym(net, SymVar(DataName))]

AfterForward(net, graph) ==
    IF net.active THEN [net EXCEPT !.cached_graph = graph] ELSE net

\* Operations the backend executed for the call.
ForwardKernels(net, graph) ==
    IF net.active THEN Kernels(graph) ELSE 2 * Len(net.layers) - 1

Counted(c, net, hf) ==
    [calls    |-> c.calls + 1,
     since    |-> IF net.active THEN c.since + 1 ELSE c.since,
     hf       |-> c.hf + Len(hf),
     hf_since |-> IF net.active THEN c.hf_since + Len(hf) ELSE c.hf_since]

Forward(n, x) ==
    /\ n = Len(nets)
    /\ steps < MaxSteps
    /\ steps' = steps + 1
    /\ UNCHANGED arch
    /\ IF ShapeMismatch(nets[n], x)
       THEN FailFast(n, x)
       ELSE LET net   == FinishDeferredInit(nets[n], Shape(x)[2])
                graph == IF net.active THEN GetGraph(net) ELSE NoSymbol
                hf    == ForwardPrints(net, x)
            IN  /\ nets' = [nets EXCEPT ![n] = AfterForward(net, graph)]
                /\ count' = [count EXCEPT ![n] = Counted(count[n], net, hf)]
                /\ last' = Result("forward", n, x, ForwardValue(net, graph, x), NoSymbol,
                                  hf, ForwardKernels(net, graph), FALSE)
                /\ UNCHANGED <<y, files>>

\* Mutant: the symbolic call also stores its result as the net's graph.
ForwardSymbolKeeps(n) ==
    /\ n = Len(nets)
    /\ steps < MaxSteps
    /\ steps' = steps + 1
    /\ LET x   == SymVar(DataName)
           out == HybridForwardSym(nets[n], x)
       IN  /\ y' = out
           /\ nets' = [nets EXCEPT ![n].cached_graph = out]
           /\ last' = Result("forward_sym", n, NoTensor, NoTensor, out,
                             <<Printed("mxnet.symbol", NoTensor, x)>>, 0, FALSE)
    /\ UNCHANGED <<arch, count, files>>

\* y = net(x) with x = sym.var('data'): the symbolic program is returned.
ForwardSymbol(n) ==
    /\ n = Len(nets)
    /\ steps < MaxSteps
    /\ steps' = steps + 1
    /\ LET x   == SymVar(DataName)
           out == HybridForwardSym(nets[n], x)
       IN  /\ y' = out
           /\ last' = Result("forward_sym", n, NoTensor, NoTensor, out,
                             <<Printed("mxnet.symbol", NoTensor, x)>>, 0, FALSE)
    /\ UNCHANGED <<arch, nets, count, files>>

\* Mutant: hybridize() flips the mode.
HybridizedToggle(net) == [net EXCEPT !.active = ~net.active]

\* Mutant: hybridize() records the graph at once.
HybridizedBuilds(net) ==
    [net EXCEPT !.active = TRUE,
                !.cached_graph = HybridForwardSym(net, SymVar(DataName))]

\* net.hybridize()
Hybridized(net) == [net EXCEPT !.active = TRUE]

Hybridize(n) ==
    /\ n = Len(nets)
    /\ steps < MaxSteps
    /\ steps' = steps + 1
    /\ nets' = [nets EXCEPT ![n] = Hybridized(nets[n])]
    /\ last' = Result("hybridize", n, NoTensor, NoTensor, NoSymbol, <<>>, 0, FALSE)
    /\ UNCHANGED <<arch, count, y, files>>

\* Mutant: the mode is shared, a new instance starts in the mode of the last.
GetNetSharedMode ==
    /\ steps < MaxSteps
    /\ Len(nets) < MaxNets
    /\ steps' = steps + 1
    /\ nets' = Append(nets, [NewNet(Len(nets), arch, nets[Len(nets)].seed + 1)
                                EXCEPT !.active = nets[Len(nets)].active])
    /\ count' = Append(count, NoCount)
    /\ last' = Result("get_net", Len(nets) + 1, NoTensor, NoTensor, NoSymbol, <<>>, 0, FALSE)
    /\ UNCHANGED <<arch, y, files>>

\* net = get_net(): the name net now refers to the new instance; the random
\* generator has moved on, so its parameters are another draw.
GetNet ==
    /\ steps < MaxSteps
    /\ Len(nets) < MaxNets
    /\ steps' = steps + 1
    /\ nets' = Append(nets, NewNet(Len(nets), arch, nets[Len(nets)].seed + 1))
    /\ count' = Append(count, NoCount)
    /\ last' = Result("get_net", Len(nets) + 1, NoTensor, NoTensor, NoSymbol, <<>>, 0, FALSE)
    /\ UNCHANGED <<arch, y, files>>

\* y.save('model.json')
SaveSymbol ==
    /\ steps < MaxSteps
    /\ y # NoSymbol
    /\ steps' = steps + 1
    /\ files' = [files EXCEPT !.json = tojson(y)]
    /\ last' = Result("save", 0, NoTensor, NoTensor, NoSymbol, <<>>, 0, FALSE)
    /\ UNCHANGED <<arch, nets, count, y>>

\* net.save_params('model.params')
SaveParams(n) ==
    /\ n = Len(nets)
    /\ steps < MaxSteps
    /\ steps' = steps + 1
    /\ files' = [files EXCEPT !.params = <<nets[n].params>>]
    /\ last' = Result("save_params", n, NoTensor, NoTensor, NoSymbol, <<>>, 0, FALSE)
    /\ UNCHANGED <<arch, nets, count, y>>

Init ==
    /\ arch \in Archs
    /\ nets = <<NewNet(0, arch, 0)>>
    /\ count = <<NoCount>>
    /\ last = Result("get_net", 1, NoTensor, NoTensor, NoSymbol, <<>>, 0, FALSE)
    /\ y = NoSymbol
    /\ files = [json |-> tojson(NoSymbol), params |-> <<>>]
    /\ steps = 0

Next ==
    \/ GetNet
    \/ \E n \in 1..Len(nets), x \in Inputs : Forward(n, x)
    \/ \E n \in 1..Len(nets) : ForwardSymbol(n)
    \/ \E n \in 1..Len(nets) : Hybridize(n)
    \/ SaveSymbol
    \/ \E n \in 1..Len(nets) : SaveParams(n)

Spec == Init /\ [][Next]_vars

\* ================================================================= claims
\* The last statement was a forward call with an NDArray that returned.
Returned == last.op = "forward" /\ ~last.error

LastNet == nets[last.net]

\* C1: for every network and input, the output of a forward call on the
\* compiled network (the first such call and every later one) equals the
\* output eager execution gives for the same network and input.
C1_CompiledEqualsEager ==
    (Returned /\ LastNet.active) => last.out = HybridForwardNd(LastNet, last.x)

\* C1 witness: a second compiled call on a network with a hidden layer whose
\* output is not all zeros.
C1_Witness ==
    /\ Returned /\ LastNet.active
    /\ count[last.net].since >= 2
    /\ Len(LastNet.layers) >= 2
    /\ \E b \in 1..Len(last.out) : \E u \in 1..Len(last.out[b]) : last.out[b][u] # 0

\* C2: after the switch to compiled mode, over any number n >= 1 of forward
\* calls with NDArrays, hybrid_forward has run exactly once in total, and it
\* ran during the first of those calls; later calls run none.
C2_HybridForwardOnce ==
    /\ \A n \in 1..Len(nets) : count[n].since >= 1 => count[n].hf_since = 1
    /\ (Returned /\ LastNet.active) =>
            Len(last.hf) = (IF count[last.net].since = 1 THEN 1 ELSE 0)

\* C2 witness: two calls served after hybridize(); hybrid_forward ran once
\* over both, and not during the second.
C2_Witness ==
    /\ Returned /\ LastNet.active
    /\ count[last.net].since = 2
    /\ count[last.net].hf_since = 1
    /\ last.hf = <<>>

\* C3: while a network is in eager mode every forward call with an NDArray
\* runs hybrid_forward once, with F = mxnet.ndarray and the NDArray that was
\* fed: after n calls it has run n times, and no graph is kept.
C3_EagerRunsEveryCall ==
    /\ \A n \in 1..Len(nets) :
           ~nets[n].active =>
               /\ count[n].hf = count[n].calls
               /\ count[n].since = 0
               /\ nets[n].cached_graph = NoSymbol
    /\ (Returned /\ ~LastNet.active) =>
           last.hf = <<Printed("mxnet.ndarray", last.x, NoSymbol)>>

\* C3 witness: three eager calls, three runs of hybrid_forward.
C3_Witness ==
    /\ Returned /\ ~LastNet.active
    /\ count[last.net].calls = 3
    /\ count[last.net].hf = 3

C5_BackendFollowsMode ==
    Returned =>
        IF LastNet.active
        THEN /\ count[last.net].since = 1 => Len(last.hf) = 1
             /\ \A i \in 1..Len(last.hf) :
                    /\ last.hf[i].F = "mxnet.symbol"
                    /\ last.hf[i].xtype = "Symbol"
                    /\ last.hf[i].x_sym = SymVar(DataName)
                    /\ last.hf[i].x_nd # last.x
        ELSE last.hf = <<[F |-> "mxnet.ndarray", xtype |-> "NDArray",
                          x_nd |-> last.x, x_sym |-> NoSymbol]>>

\* C5 witness: the first call after hybridize() on a net that served an eager
\* call before; hybrid_forward ran on a placeholder.
C5_Witness ==
    /\ Returned /\ LastNet.active
    /\ count[last.net].calls = 2
    /\ count[last.net].since = 1
    /\ Len(last.hf) = 1

\* C6: the mode of an instance is monotone: a new instance is eager,
\* hybridize() makes it compiled, and no statement (forward call, symbolic
\* call, save, further hybridize()) takes a compiled instance back to eager.
C6_ModeMonotone ==
    /\ \A n \in 1..Len(nets) : ~nets[n].active
    /\ [][ /\ \A n \in 1..Len(nets) : nets[n].active => nets'[n].active
           /\ \A n \in (Len(nets) + 1)..Len(nets') : ~nets'[n].active
           /\ (steps' # steps /\ last'.op = "hybridize") => nets'[last'.net].active
        ]_vars

\* C6 witness: hybridize() called again on a compiled net that has served a
\* call.
C6_Witness ==
    /\ last.op = "hybridize"
    /\ LastNet.active
    /\ count[last.net].since >= 1

\* C7: the output of a forward call has the batch dimension of the input and
\* as feature dimension the unit count of the last layer, in eager and in
\* compiled mode, whatever calls preceded it (the notebook: (1,512) in,
\* (1,2) out of Dense 256, Dense 128, Dense 2).
C7_OutputShape ==
    Returned =>
        Shape(last.out) = <<Shape(last.x)[1], LastNet.layers[Len(LastNet.layers)]>>

\* C7 witness: a compiled net with a hidden layer and a last layer of 2 units,
\* called before, returns a (1,2) output for a one-sample input.
C7_Witness ==
    /\ Returned /\ LastNet.active
    /\ count[last.net].calls >= 2
    /\ Len(LastNet.layers) >= 2
    /\ Shape(last.x)[1] = 1
    /\ Shape(last.out) = <<1, 2>>

\* C8: a call with a Symbol placeholder returns the symbolic program, a
\* Symbol whose head is the last layer's forward node, computes nothing
\* numerically, and leaves every net (mode, parameters, kept graph) as it
\* was, also on a hybridized net that has served calls with NDArrays.
C8_SymbolCallReturnsProgram ==
    [][ (steps' # steps /\ last'.op = "forward_sym")
        => LET net  == nets[last'.net]
               head == last'.sym.nodes[last'.sym.head + 1]
           IN  /\ head.op = "FullyConnected"
               /\ head.name = Name(net.scope, Len(net.layers) - 1, "fwd")
               /\ y' = last'.sym
               /\ last'.out = NoTensor
               /\ last'.kernels = 0
               /\ nets' = nets
               /\ count' = count ]_vars

\* C8 witness: the symbolic program obtained from a hybridized net that has
\* served a call with an NDArray.
C8_Witness ==
    /\ last.op = "forward_sym"
    /\ LastNet.active
    /\ count[last.net].since >= 1
    /\ LastNet.cached_graph # NoSymbol
    /\ y = last.sym

\* C9: the kept graph is built on first use: hybridize() runs no
\* hybrid_forward and builds nothing, so the cache is empty until the first
\* forward call in compiled mode, which fills it; a kept graph implies
\* compiled mode and at least one forward call since the switch.
C9_BuildOnFirstUse ==
    /\ \A n \in 1..Len(nets) :
           /\ nets[n].cached_graph # NoSymbol
                  => (nets[n].active /\ count[n].since >= 1)
           /\ (nets[n].active /\ count[n].since = 0)
                  => nets[n].cached_graph = NoSymbol
           /\ count[n].since >= 1 => nets[n].cached_graph # NoSymbol
    /\ last.op = "hybridize" => (last.hf = <<>> /\ last.kernels = 0)

\* C9 witness: the first forward call after hybridize(), on a net that had
\* served an eager call, has filled the cache.
C9_Witness ==
    /\ Returned /\ LastNet.active
    /\ count[last.net].calls = 2
    /\ count[last.net].since = 1
    /\ LastNet.cached_graph # NoSymbol

\* The json of a graph recorded for the layers of net `scope` is a chain.
WellFormedChain(j, scope, layers) ==
    LET N == Len(j.nodes)
        Has(nm) == \E k \in 1..N : j.nodes[k].name = nm
        Idx(nm) == (CHOOSE k \in 1..N : j.nodes[k].name = nm) - 1
        Fwd(i) == Name(scope, i - 1, "fwd")
        Out(i) == IF Act(layers, i) = "relu" THEN Name(scope, i - 1, "relu_fwd")
                  ELSE Fwd(i)
        Nulls == { k - 1 : k \in { m \in 1..N : j.nodes[m].op = "null" } }
    IN  /\ \A k1, k2 \in 1..N : j.nodes[k1].name = j.nodes[k2].name => k1 = k2
        /\ \A k \in 1..N : \A m \in 1..Len(j.nodes[k].inputs) :
               j.nodes[k].inputs[m] >= 0 /\ j.nodes[k].inputs[m] < k - 1
        /\ { j.arg_nodes[a] : a \in 1..Len(j.arg_nodes) } = Nulls
        /\ Len(j.arg_nodes) = Cardinality(Nulls)
        /\ { j.nodes[k + 1].name : k \in Nulls } = {DataName} \cup ParamNames(scope, layers)
        /\ N = Cardinality(Nulls) + Cardinality({ Fwd(i) : i \in 1..Len(layers) }
                                                \cup { Out(i) : i \in 1..Len(layers) })
        /\ \A i \in 1..Len(layers) :
               /\ Has(Fwd(i)) /\ Has(Out(i))
               /\ LET f == j.nodes[Idx(Fwd(i)) + 1]
                  IN  /\ f.op = "FullyConnected"
                      /\ f.inputs = << Idx(IF i = 1 THEN DataName ELSE Out(i - 1)),
                                       Idx(Name(scope, i - 1, "weight")),
                                       Idx(Name(scope, i - 1, "bias")) >>
               /\ Act(layers, i) = "relu" =>
                      /\ j.nodes[Idx(Out(i)) + 1].op = "Activation"
                      /\ j.nodes[Idx(Out(i)) + 1].inputs = << Idx(Fwd(i)) >>
               /\ i > 1 => Idx(Fwd(i - 1)) < Idx(Fwd(i))
        /\ j.heads = << Idx(Fwd(Len(layers))) >>

\* C10: the graph recorded for a sequential network of k layers is a
\* well-formed chain: topological node order, argument nodes exactly the
\* nodes without an operation (data plus each layer's weight and bias),
\* layer i fed by the output of layer i-1 (the data placeholder for the
\* first) with its own weight and bias, layers in the order added, and a
\* single head, the last layer's operation node.  It holds of the graph a
\* compiled net keeps, of the symbolic program in y and of model.json.
C10_GraphIsChain ==
    /\ \A n \in 1..Len(nets) :
           nets[n].cached_graph # NoSymbol
               => WellFormedChain(tojson(nets[n].cached_graph), nets[n].scope,
                                  nets[n].layers)
    /\ y # NoSymbol
           => WellFormedChain(tojson(y), y.nodes[y.head + 1].name[1], arch)
    /\ files.json.nodes # <<>>
           => WellFormedChain(files.json,
                              files.json.nodes[Len(files.json.nodes)].name[1], arch)

\* C10 witness: a two-layer net keeps a graph and y holds its symbolic program.
C10_Witness ==
    /\ Len(arch) >= 2
    /\ y # NoSymbol
    /\ Len(tojson(y).nodes) = 3 * Len(arch) + Len(arch)
    /\ \E n \in 1..Len(nets) :
           /\ nets[n].cached_graph # NoSymbol
           /\ Len(tojson(nets[n].cached_graph).arg_nodes) = 1 + 2 * Len(arch)

GraphParams(graph) ==
    { graph.nodes[k].name : k \in { m \in 1..Len(graph.nodes) :
                                       /\ graph.nodes[m].op = "null"
                                       /\ graph.nodes[m].name # DataName } }

FreshEager(net, x) ==
    HybridForwardNd(FinishDeferredInit(NewNet(net.scope, net.layers, net.seed),
                                       Shape(x)[2]), x)

\* C13: the output of a forward call is a function of the net's parameters
\* and the input of that call alone: whatever inputs came before, and whether
\* and when hybridize() was called, it is the value an eager call on a net
\* with no history gives for that input.
C13_HistoryIndependent ==
    Returned => last.out = FreshEager(LastNet, last.x)

\* C13 witness: a compiled call replays the kept graph after at least one
\* earlier compiled call, on an input for which another input of the same
\* width would have given another output.
C13_Witness ==
    /\ Returned
    /\ LastNet.active
    /\ count[last.net].since >= 2
    /\ last.hf = <<>>
    /\ \E a \in Inputs :
          /\ a # last.x
          /\ Shape(a)[2] = Shape(last.x)[2]
          /\ FreshEager(LastNet, a) # last.out

\* C14: mode, kept graph and counters belong to one instance. get_net()
\* always yields a new instance in imperative mode that keeps no graph and has
\* no calls counted, whatever the mode of the instances made before it, and
\* it is the only statement that adds one; a statement on one instance leaves
\* every other instance and its counters as they were; an instance that was
\* never hybridized keeps no graph and runs hybrid_forward in each call.
C14_PerInstanceState ==
    [][ /\ Len(nets') \in {Len(nets), Len(nets) + 1}
        /\ Len(count') = Len(nets')
        /\ Len(nets') = Len(nets) + 1 <=> (steps' # steps /\ last'.op = "get_net")
        /\ Len(nets') = Len(nets) + 1 =>
              /\ ~nets'[Len(nets')].active
              /\ nets'[Len(nets')].cached_graph = NoSymbol
              /\ count'[Len(nets')] = NoCount
              /\ last'.net = Len(nets')
        /\ \A n \in 1..Len(nets) :
              (steps' # steps /\ last'.net # n) =>
                  /\ nets'[n] = nets[n]
                  /\ count'[n] = count[n]
        /\ \A n \in 1..Len(nets') :
              ~nets'[n].active =>
                  /\ nets'[n].cached_graph = NoSymbol
                  /\ count'[n].since = 0
                  /\ count'[n].hf = count'[n].calls ]_vars

\* C14 witness: after an instance was hybridized, a second instance is made
\* and its call runs hybrid_forward on the data and keeps no graph, the first
\* instance still being in compiled mode.
C14_Witness ==
    /\ Len(nets) = 2
    /\ nets[1].active
    /\ ~nets[2].active /\ nets[2].cached_graph = NoSymbol
    /\ Returned /\ last.net = 2
    /\ Len(last.hf) = 1 /\ last.hf[1].F = "mxnet.ndarray"
    /\ count[2] = [calls |-> 1, since |-> 0, hf |-> 1, hf_since |-> 0]

====
